---- MODULE Spec2Model ----
(***************************************************************************)
(* Model of userbot.py: a Telegram userbot that forwards channel messages  *)
(* to a webhook, keeps undelivered payloads in a SQLite queue and resends  *)
(* them from a background task, and remembers the last forwarded message   *)
(* id of every channel in a JSON file.                                     *)
(*                                                                         *)
(* Python values are modelled as follows.  An optional value (None or x)   *)
(* is the set {} or {x}.  A dict is a function whose domain is its key     *)
(* set.  A JSON text is the sequence of its tokens.  The SQLite table is   *)
(* the set of its rows.  asyncio runs one task at a time and switches only *)
(* at an await, so a task that is between two awaits excludes the steps    *)
(* of the other task.                                                      *)
(*                                                                         *)
(* Left out: the auth header (it changes no state), created_at (never      *)
(* read), logging, and errors of sqlite3 and of the file system (the two   *)
(* stores are taken as reliable, but for resend_unexpected of SpecDrain).  *)
(* process_message may raise while it reads the message, before it calls   *)
(* send_or_queue.                                                          *)
(*                                                                         *)
(* Spec is the program with few messages, SpecPage one channel that gets   *)
(* more messages than a page of a poll, SpecDrain the daemon under a fair  *)
(* event loop with an endpoint that recovers.                              *)
(***************************************************************************)
EXTENDS Integers, Sequences, FiniteSets, TLC

\* ------------------------------------------------------------- bounds

\* Most messages ever posted, over all channels.
MaxMsgs == 2

\* Most times the daemon process is killed and started again.
MaxRestarts == 1

\* Most messages beyond one page of a poll that a channel ever holds.
MaxBeyond == 1

\* Most times resend_queue raises an exception it does not catch.
MaxCrashes == 1

\* ---------------------------------------------------------- constants

\* The page size of one poll: get_chat_history(chat_id, limit=50).
POLL_LIMIT == 50

\* ---------------------------------------------------------- environment

\* chat ids of the channels that exist on the server
Channels == {-1, -2}

\* message.chat of a message of channel c (title / username as the server has them)
Chat(c) ==
    IF c = -1 THEN [id |-> c, title |-> {"News"}, username |-> {"news"}]
              ELSE [id |-> c, title |-> {},       username |-> {}]

\* What a message carries: text, or media with a caption.  The messages of
\* one channel are text messages, those of the other are captioned media.
MsgKinds == {"text", "caption"}

KindOf(c) == IF c = -1 THEN "text" ELSE "caption"

\* The message with id n of channel c whose kind is k, as the client returns it.
Message(c, n, k) ==
    [id      |-> n,
     chat    |-> Chat(c),
     text    |-> IF k = "text" THEN {"hello"} ELSE {},
     caption |-> IF k = "caption" THEN {"photo"} ELSE {},
     date    |-> {n}]

\* All messages of a channel whose kinds are the sequence kinds, oldest first.
History(c, kinds) == [n \in 1..Len(kinds) |-> Message(c, n, kinds[n])]

Reverse(s) == [i \in 1..Len(s) |-> s[Len(s) + 1 - i]]

Min(a, b) == IF a < b THEN a ELSE b

\* str(n) for the integers of the model
NumStr == [n \in -2..(POLL_LIMIT + 9) |-> ToString(n)]

IsInt(s) == \E n \in DOMAIN NumStr : NumStr[n] = s

\* int(s); ValueError when ~IsInt(s)
int(s) == CHOOSE n \in DOMAIN NumStr : NumStr[n] = s

\* The outcome of one requests.post: a response with a status code, or an
\* exception (timeout, connection refused, ...).
PostOutcomes ==
    {[raised |-> FALSE, status |-> 200],
     [raised |-> FALSE, status |-> 500],
     [raised |-> TRUE,  status |-> 0]}

\* Mutant of requests_post: a POST with no URL reaches the endpoint.
requests_post_no_check(url, outcome) == outcome

\* requests.post(WEBHOOK_URL, ...): with no URL it raises MissingSchema
\* before anything is sent; otherwise the endpoint decides.
requests_post(url, outcome) ==
    IF url = {} THEN [raised |-> TRUE, status |-> 0] ELSE outcome

\* ------------------------------------------------------------------ JSON

Tok(t, s) == [t |-> t, s |-> s]

JNum(n) == Tok("num", NumStr[n])
JStr(s) == Tok("str", s)
JNull   == Tok("null", "")

PayloadKeys == <<"chat_id", "chat_title", "message_id", "date", "text">>

\* Mutant of json_dumps: None is written as the string "None".
json_dumps_str_none(p) ==
    << Tok("{", ""),
       JStr("chat_id"),    JNum(p.chat_id),
       JStr("chat_title"), IF p.chat_title = {} THEN JStr("None")
                           ELSE JStr(CHOOSE s \in p.chat_title : TRUE),
       JStr("message_id"), JNum(p.message_id),
       JStr("date"),       IF p.date = {} THEN JStr("None")
                           ELSE JNum(CHOOSE d \in p.date : TRUE),
       JStr("text"),       JStr(p.text),
       Tok("}", "") >>

\* json.dumps(payload, ensure_ascii=False): the object's tokens, keys in
\* insertion order.
json_dumps(p) ==
    << Tok("{", ""),
       JStr("chat_id"),    JNum(p.chat_id),
       JStr("chat_title"), IF p.chat_title = {} THEN JNull
                           ELSE JStr(CHOOSE s \in p.chat_title : TRUE),
       JStr("message_id"), JNum(p.message_id),
       JStr("date"),       IF p.date = {} THEN JNull
                           ELSE JNum(CHOOSE d \in p.date : TRUE),
       JStr("text"),       JStr(p.text),
       Tok("}", "") >>

IsNumTok(t) == t.t = "num" /\ IsInt(t.s)

\* Whether json.loads accepts the text (the texts of the model are payload
\* objects and damaged ones).
json_valid(text) ==
    /\ Len(text) = 12
    /\ text[1].t = "{"
    /\ text[12].t = "}"
    /\ \A i \in 1..5 : text[2 * i] = JStr(PayloadKeys[i])
    /\ IsNumTok(text[3])
    /\ text[5].t \in {"str", "null"}
    /\ IsNumTok(text[7])
    /\ text[9].t = "null" \/ IsNumTok(text[9])
    /\ text[11].t = "str"

\* json.loads(text) of a text it accepts
json_loads(text) ==
    [chat_id    |-> int(text[3].s),
     chat_title |-> IF text[5].t = "null" THEN {} ELSE {text[5].s},
     message_id |-> int(text[7].s),
     date       |-> IF text[9].t = "null" THEN {} ELSE {int(text[9].s)},
     text       |-> text[11].s]

\* A stored text that json.loads rejects: a row cut short on disk.
Damaged == << Tok("{", ""), JStr("chat_id") >>

\* ------------------------------------------------------------ the state

VARIABLES
    argv,          \* sys.argv
    CHANNELS_RAW,  \* os.getenv("CHANNELS", "").split()
    WEBHOOK_URL,   \* os.getenv("N8N_WEBHOOK_URL"): {} when unset
    chats,         \* server side: the kinds of each channel's messages, oldest first
    queue,         \* pending.db: [rows: the queue table, seq: its AUTOINCREMENT counter]
    last_id_file,  \* last_message_ids.json: a dict (the empty dict when there is no file)
    app,           \* the client: "new", "started" or "stopped"
    main_pc,       \* where main_async is
    CHANNEL_IDS,   \* the resolved channels of the daemon
    last_ids,      \* poll_channels' dict
    poll_pc,       \* where poll_channels is: "off", "load", "fetch", "process"
    poll_i,        \* index in CHANNEL_IDS of the channel being polled
    messages,      \* the messages still to be handled by read_history / poll_channels
    resend_pc,     \* where background_resender is: "off", "ready", "pass"
    rows,          \* the fetched rows resend_queue has not looked at yet
    ev,            \* what the last step did
    fetched,       \* read_history: the message ids fetched, in the order the client gave them
    available,     \* read_history: how many messages the channel held at the fetch
    handed,        \* <<chat id, message id>> handed to process_message in this run
    returned,      \* those for which process_message returned normally
    resent,        \* the largest id of a row a resend got accepted with status 200
    restarts,      \* how often the daemon has been killed and started again
    polled,        \* the indexes in CHANNEL_IDS poll_channels has fetched in this cycle
    endpoint_up,   \* whether the endpoint has recovered: it then answers 200 to every POST
    crashes        \* how often resend_queue has raised an unexpected exception

config == <<argv, CHANNELS_RAW, WEBHOOK_URL>>
server == <<chats>>
disk   == <<queue, last_id_file>>
main   == <<app, main_pc, CHANNEL_IDS>>
poller == <<last_ids, poll_pc, poll_i, messages>>
resender == <<resend_pc, rows>>
aux    == <<fetched, available, handed, returned, resent, restarts>>
world  == <<endpoint_up, crashes>>
vars   == <<config, server, disk, main, poller, resender, aux, polled, world, ev>>

\* The record of a step.  op names the step; chan/mid the message handed to
\* process_message; raised whether process_message raised; posts the number
\* of POSTs made; resp the outcome of the POST; ret what send_or_queue
\* returned (for a resend: whether the row was accepted); rowid/malformed the
\* queue row a resend looked at; before the queue table before the step;
\* again whether the message had been handed to process_message before in
\* this run, redone whether process_message had returned for it before;
\* polled and last_before the values of polled and last_ids before the step.
Ev(op, chan, mid, raised, posts, resp, ret, rowid, malformed) ==
    [op |-> op, chan |-> chan, mid |-> mid, raised |-> raised, posts |-> posts,
     resp |-> resp, ret |-> ret, rowid |-> rowid, malformed |-> malformed,
     before |-> queue.rows,
     again  |-> <<chan, mid>> \in handed,
     redone |-> <<chan, mid>> \in returned,
     polled |-> polled,
     last_before |-> last_ids]

NoResp == [raised |-> FALSE, status |-> 0]

Step(op) == Ev(op, 0, 0, FALSE, 0, NoResp, FALSE, 0, FALSE)

\* --------------------------------------------------------- sending

\* Mutant of delivered: any response counts, whatever its status.
delivered_any_status(r) == ~r.raised

\* r.status_code == 200
delivered(r) == ~r.raised /\ r.status = 200

\* Mutant of save_to_queue: the new row replaces the table's rows.
save_replacing(db, payload) ==
    [rows |-> {[id |-> db.seq + 1, payload |-> json_dumps(payload)]},
     seq  |-> db.seq + 1]

\* INSERT INTO queue (payload, created_at): a new row with the next
\* AUTOINCREMENT id (created_at is never read and is left out).
save_to_queue(db, payload) ==
    [rows |-> db.rows \cup {[id |-> db.seq + 1, payload |-> json_dumps(payload)]},
     seq  |-> db.seq + 1]

\* send_or_queue(payload) when the POST, if made, ends as outcome:
\* what it returns, the database afterwards, the POSTs made.
send_or_queue(payload, outcome, db) ==
    IF WEBHOOK_URL = {}
    THEN [ret |-> FALSE, db |-> save_to_queue(db, payload), posts |-> 0, resp |-> NoResp]
    ELSE LET r == requests_post(WEBHOOK_URL, outcome) IN
         IF delivered(r)
         THEN [ret |-> TRUE, db |-> db, posts |-> 1, resp |-> r]
         ELSE [ret |-> FALSE, db |-> save_to_queue(db, payload), posts |-> 1, resp |-> r]

\* The payload process_message builds from a message.
payload_of(message) ==
    [chat_id    |-> message.chat.id,
     chat_title |-> IF message.chat.title # {} THEN message.chat.title
                    ELSE message.chat.username,
     message_id |-> message.id,
     date       |-> message.date,
     text       |-> IF message.text # {} THEN CHOOSE t \in message.text : TRUE
                    ELSE IF message.caption # {} THEN CHOOSE t \in message.caption : TRUE
                    ELSE ""]

\* ------------------------------------------------------ channel resolver

\* ch.startswith("-100") or ch.startswith("-"), for the strings of the model
StartsWithDash(ch) == ch \in {"-1", "-2", "-abc"}

\* ch.replace("https://t.me/", "").replace("http://t.me/", "").replace("@", "").strip()
clean(ch) ==
    CASE ch = "@news" -> "news"
      [] ch = "https://t.me/chan2" -> "chan2"
      [] ch = "@ghost" -> "ghost"
      [] OTHER -> ch

\* app.get_chat(name): the chat, or {} when the call raises
get_chat(name) ==
    CASE name = "news" -> {Chat(-1)}
      [] name = "chan2" -> {Chat(-2)}
      [] OTHER -> {}

RECURSIVE resolve_channels(_)
resolve_channels(channels_raw) ==
    IF channels_raw = <<>> THEN <<>>
    ELSE LET ch   == Head(channels_raw)
             rest == resolve_channels(Tail(channels_raw))
         IN IF ch = "" THEN rest
            ELSE IF StartsWithDash(ch)
                 THEN IF IsInt(ch) THEN <<int(ch)>> \o rest ELSE rest
                 ELSE LET chat == get_chat(clean(ch))
                      IN IF chat = {} THEN rest
                         ELSE <<(CHOOSE c \in chat : TRUE).id>> \o rest

\* ---------------------------------------------------------- last ids store

EmptyDict == [k \in {} |-> 0]

\* d.get(k, default)
dict_get(d, k, default) == IF k \in DOMAIN d THEN d[k] ELSE default

\* Mutant of dict_set: a key that is there keeps its value (d.setdefault(k, v)).
dict_setdefault(d, k, v) == [x \in DOMAIN d \cup {k} |-> IF x \in DOMAIN d THEN d[x] ELSE v]

\* d[k] = v
dict_set(d, k, v) == [x \in DOMAIN d \cup {k} |-> IF x = k THEN v ELSE d[x]]

\* json.dump(last_ids, f): the file holds each value as its numeral
save_last_ids(d) == [k \in DOMAIN d |-> NumStr[d[k]]]

\* json.load(f), or {} when there is no file
load_last_ids(file) == [k \in DOMAIN file |-> int(file[k])]

\* -------------------------------------------------------- the client's history

\* What app.get_chat_history(chat_id, limit=limit) yields over the messages
\* hist (oldest first): newest first, limit messages at most, where the
\* client reads limit 0 as no limit (total = limit or (1 << 31) - 1).
get_chat_history(hist, limit) ==
    LET newest == Reverse(hist)
        total  == IF limit = 0 THEN 2147483647 ELSE limit
    IN SubSeq(newest, 1, Min(total, Len(newest)))

\* read_history's collecting loop over what the generator yields:
\* append, then break once len(messages) >= count.
read_loop(yielded, count) ==
    SubSeq(yielded, 1, Min(Len(yielded), IF count < 1 THEN 1 ELSE count))

Ids(msgs) == [i \in 1..Len(msgs) |-> msgs[i].id]

\* Mutant of reversed: the list is taken as the client gave it.
not_reversed(msgs) == msgs

\* reversed(messages)
reversed(msgs) == Reverse(msgs)

\* The outcomes a POST can have now.
Outcomes == IF endpoint_up THEN {[raised |-> FALSE, status |-> 200]} ELSE PostOutcomes

\* ------------------------------------------------------------ main_async

\* sys.argv[1] if len(sys.argv) > 1 else "daemon"  (argv[1] here is sys.argv[0])
mode == IF Len(argv) > 1 THEN argv[2] ELSE "daemon"

\* len(sys.argv) < 4
usage_missing == Len(argv) < 4

\* int(sys.argv[3]) raises ValueError
count_invalid == ~IsInt(argv[4])

\* not resolved  (history mode)
unresolved(resolved) == resolved = <<>>

\* Mutant of no_channels: the check is missing.
no_channels_unchecked(ids) == FALSE

\* not CHANNEL_IDS  (daemon mode)
no_channels(ids) == ids = <<>>

\* build_channel_list_from_env()
build_channel_list_from_env == SelectSeq(CHANNELS_RAW, LAMBDA item : item # "")

\* main_async up to its first long-running part: the mode is read, the
\* arguments are checked, the client is started and the channels resolved.
main_async ==
    /\ UNCHANGED <<polled, world>>
    /\ main_pc = "start"
    /\ ev' = Step("main")
    /\ UNCHANGED <<config, server, disk, last_ids, poll_i, messages, rows, aux>>
    /\ IF mode = "auth"
       THEN /\ app' = "started"
            /\ main_pc' = "auth_done"
            /\ UNCHANGED <<CHANNEL_IDS, poll_pc, resend_pc>>
       ELSE IF mode = "history"
       THEN /\ UNCHANGED <<CHANNEL_IDS, poll_pc, resend_pc>>
            /\ IF usage_missing
               THEN /\ main_pc' = "usage_error"
                    /\ app' = app
               ELSE IF count_invalid
               THEN /\ main_pc' = "count_error"
                    /\ app' = app
               ELSE IF unresolved(resolve_channels(<<argv[3]>>))
               THEN /\ main_pc' = "unresolved"
                    /\ app' = "stopped"
               ELSE /\ main_pc' = "read_history"
                    /\ app' = "started"
       ELSE LET ids == resolve_channels(build_channel_list_from_env)
            IN IF no_channels(ids)
               THEN /\ main_pc' = "no_channels"
                    /\ app' = "stopped"
                    /\ UNCHANGED <<CHANNEL_IDS, poll_pc, resend_pc>>
               ELSE /\ main_pc' = "daemon"
                    /\ app' = "started"
                    /\ CHANNEL_IDS' = ids
                    /\ resend_pc' = "ready"
                    /\ poll_pc' = "load"

\* ---------------------------------------------------------- read_history

\* The channel and the count read_history is called with.
channel_id == resolve_channels(<<argv[3]>>)[1]
count == int(argv[4])

\* read_history up to its processing loop: the messages are fetched.
read_history_fetch ==
    /\ UNCHANGED <<polled, world>>
    /\ main_pc = "read_history"
    /\ LET yielded == get_chat_history(History(channel_id, chats[channel_id]), count)
           got     == read_loop(yielded, count)
       IN /\ messages' = reversed(got)
          /\ fetched' = Ids(got)
    /\ available' = Len(chats[channel_id])
    /\ main_pc' = "history_loop"
    /\ ev' = Step("fetch")
    /\ UNCHANGED <<config, server, disk, app, CHANNEL_IDS, last_ids, poll_pc, poll_i,
                   resender, handed, returned, resent, restarts>>

\* Mutant of history_continues: an exception ends the loop.
history_stops(raised) == ~raised

\* An exception out of process_message is caught and logged: the loop goes on.
history_continues(raised) == TRUE

\* One round of "for msg in reversed(messages)": process_message(msg), which
\* raises (raises) or calls send_or_queue, whose POST ends as outcome.
read_history_step ==
    /\ UNCHANGED <<polled, world>>
    /\ main_pc = "history_loop"
    /\ messages # <<>>
    /\ \E raises \in BOOLEAN, outcome \in Outcomes :
          LET msg == Head(messages)
              res == send_or_queue(payload_of(msg), outcome, queue)
          IN /\ raises => outcome = CHOOSE o \in Outcomes : TRUE
             /\ queue' = IF raises THEN queue ELSE res.db
             /\ ev' = IF raises
                      THEN Ev("process", msg.chat.id, msg.id, TRUE, 0, NoResp, FALSE, 0, FALSE)
                      ELSE Ev("process", msg.chat.id, msg.id, FALSE, res.posts, res.resp,
                              res.ret, 0, FALSE)
             /\ handed' = handed \cup {<<msg.chat.id, msg.id>>}
             /\ returned' = IF raises THEN returned ELSE returned \cup {<<msg.chat.id, msg.id>>}
             /\ IF history_continues(raises)
                THEN /\ messages' = Tail(messages)
                     /\ main_pc' = main_pc
                ELSE /\ messages' = <<>>
                     /\ main_pc' = "history_failed"
    /\ UNCHANGED <<config, server, last_id_file, app, CHANNEL_IDS, last_ids, poll_pc, poll_i,
                   resender, fetched, available, resent, restarts>>

\* logger.info("History read complete"); main_async returns.
read_history_complete ==
    /\ UNCHANGED <<polled, world>>
    /\ main_pc = "history_loop"
    /\ messages = <<>>
    /\ main_pc' = "history_done"
    /\ ev' = Step("complete")
    /\ UNCHANGED <<config, server, disk, app, CHANNEL_IDS, poller, resender, aux>>

\* ---------------------------------------------------------- poll_channels

\* The two tasks run on one event loop: a step of poll_channels needs the
\* resender to be at an await (not inside resend_queue), and the other way round.
poller_may_run == main_pc = "daemon" /\ resend_pc # "pass"
resender_may_run == main_pc = "daemon" /\ poll_pc # "process"

\* last_ids = load_last_ids()
poll_load ==
    /\ UNCHANGED <<polled, world>>
    /\ poller_may_run
    /\ poll_pc = "load"
    /\ last_ids' = load_last_ids(last_id_file)
    /\ poll_pc' = "fetch"
    /\ poll_i' = 1
    /\ ev' = Step("load")
    /\ UNCHANGED <<config, server, disk, main, messages, resender, aux>>

\* Mutant of channel_after_error: the exception leaves the loop over the channels.
last_channel_after_error(i) == Len(CHANNEL_IDS)

\* The channel the loop over CHANNEL_IDS is at after an exception in channel
\* i: the same (the try/except is inside the loop, which goes on after it).
channel_after_error(i) == i

\* async for msg in app.get_chat_history(chat_id, limit=50): the page is
\* fetched, or the call raises and the channel is given up for this cycle.
poll_fetch ==
    /\ UNCHANGED world
    /\ poller_may_run
    /\ poll_pc = "fetch"
    /\ LET chat_id == CHANNEL_IDS[poll_i]
       IN \E fails \in BOOLEAN :
            IF fails
            THEN /\ messages' = <<>>
                 /\ poll_i' = channel_after_error(poll_i)
                 /\ ev' = Step("fetch_failed")
            ELSE /\ messages' = reversed(get_chat_history(History(chat_id, chats[chat_id]),
                                                          POLL_LIMIT))
                 /\ poll_i' = poll_i
                 /\ ev' = Step("fetch")
    /\ poll_pc' = "process"
    /\ polled' = polled \cup {poll_i}
    /\ UNCHANGED <<config, server, disk, main, last_ids, resender, aux>>

\* Mutant of newer: the last message counts as new.
not_older(id, last_id) == id >= last_id

\* msg.id > last_id
newer(id, last_id) == id > last_id

\* One round of "for msg in reversed(messages)".  A message newer than the
\* channel's last id is handed to process_message; if that raises, the
\* exception leaves the loop (the rest of the page is dropped), otherwise
\* the last id is moved to the message.
poll_process ==
    /\ UNCHANGED <<polled, world>>
    /\ poller_may_run
    /\ poll_pc = "process"
    /\ messages # <<>>
    /\ LET chat_id == CHANNEL_IDS[poll_i]
           msg     == Head(messages)
           last_id == dict_get(last_ids, NumStr[chat_id], 0)
       IN IF newer(msg.id, last_id)
          THEN \E raises \in BOOLEAN, outcome \in Outcomes :
                  LET res == send_or_queue(payload_of(msg), outcome, queue)
                  IN /\ raises => outcome = CHOOSE o \in Outcomes : TRUE
                     /\ handed' = handed \cup {<<chat_id, msg.id>>}
                     /\ IF raises
                        THEN /\ messages' = <<>>
                             /\ poll_i' = channel_after_error(poll_i)
                             /\ ev' = Ev("process", chat_id, msg.id, TRUE, 0, NoResp,
                                         FALSE, 0, FALSE)
                             /\ UNCHANGED <<queue, last_ids, returned>>
                        ELSE /\ messages' = Tail(messages)
                             /\ poll_i' = poll_i
                             /\ queue' = res.db
                             /\ last_ids' = dict_set(last_ids, NumStr[chat_id], msg.id)
                             /\ returned' = returned \cup {<<chat_id, msg.id>>}
                             /\ ev' = Ev("process", chat_id, msg.id, FALSE, res.posts,
                                         res.resp, res.ret, 0, FALSE)
          ELSE /\ messages' = Tail(messages)
               /\ ev' = Step("skip")
               /\ UNCHANGED <<queue, last_ids, handed, returned, poll_i>>
    /\ UNCHANGED <<config, server, last_id_file, main, poll_pc, resender,
                   fetched, available, resent, restarts>>

\* The end of one channel: the next channel, or, after the last one,
\* save_last_ids(last_ids) and the sleep until the next cycle.
poll_next ==
    /\ UNCHANGED world
    /\ poller_may_run
    /\ poll_pc = "process"
    /\ messages = <<>>
    /\ IF poll_i < Len(CHANNEL_IDS)
       THEN /\ poll_i' = poll_i + 1
            /\ ev' = Step("next")
            /\ UNCHANGED <<last_id_file, polled>>
       ELSE /\ poll_i' = 1
            /\ last_id_file' = save_last_ids(last_ids)
            /\ polled' = {}
            /\ ev' = Step("save")
    /\ poll_pc' = "fetch"
    /\ UNCHANGED <<config, server, queue, main, last_ids, messages, resender, aux>>

\* ----------------------------------------------------------- resend_queue

\* Mutant of select_ordered: ORDER BY id DESC.
RECURSIVE select_descending(_)
select_descending(table) ==
    IF table = {} THEN <<>>
    ELSE LET first == CHOOSE r \in table : \A x \in table : r.id >= x.id
         IN <<first>> \o select_descending(table \ {first})

\* SELECT id, payload FROM queue ORDER BY id ASC
RECURSIVE select_ordered(_)
select_ordered(table) ==
    IF table = {} THEN <<>>
    ELSE LET first == CHOOSE r \in table : \A x \in table : r.id <= x.id
         IN <<first>> \o select_ordered(table \ {first})

\* DELETE FROM queue WHERE id = ?
delete_row(db, id) == [db EXCEPT !.rows = {r \in @ : r.id # id}]

\* Mutant of resend_ok: any response counts, whatever its status.
resend_ok_any_status(r) == ~r.raised

\* r.status_code == 200  (in resend_queue)
resend_ok(r) == ~r.raised /\ r.status = 200

\* Mutant of after_failure: the pass goes on with the next row.
skip_failure(rest) == rest

\* The rows resend_queue still looks at after a failed POST: none (it returns).
after_failure(rest) == <<>>

\* Mutant of drop_malformed: the row is left in the table.
keep_malformed(db, id) == db

\* What resend_queue does with a row json.loads rejects: it deletes the row.
drop_malformed(db, id) == delete_row(db, id)

\* resend_queue is entered: the rows are read.
resend_begin ==
    /\ UNCHANGED <<polled, world>>
    /\ resender_may_run
    /\ resend_pc = "ready"
    /\ rows' = select_ordered(queue.rows)
    /\ resend_pc' = "pass"
    /\ ev' = Step("select")
    /\ UNCHANGED <<config, server, disk, main, poller, aux>>

\* One round of "for msg_id, payload_json in rows".
resend_row ==
    /\ UNCHANGED <<polled, world>>
    /\ main_pc = "daemon"
    /\ resend_pc = "pass"
    /\ rows # <<>>
    /\ LET row == Head(rows)
       IN IF ~json_valid(row.payload)
          THEN /\ queue' = drop_malformed(queue, row.id)
               /\ rows' = Tail(rows)
               /\ resend_pc' = resend_pc
               /\ ev' = Ev("resend", 0, 0, FALSE, 0, NoResp, FALSE, row.id, TRUE)
               /\ UNCHANGED resent
          ELSE \E outcome \in Outcomes :
                 LET payload == json_loads(row.payload)
                     r       == requests_post(WEBHOOK_URL, outcome)
                     posts   == IF WEBHOOK_URL = {} THEN 0 ELSE 1
                 IN /\ ev' = Ev("resend", payload.chat_id, payload.message_id, FALSE,
                                posts, r, resend_ok(r), row.id, FALSE)
                    /\ IF resend_ok(r)
                       THEN /\ queue' = delete_row(queue, row.id)
                            /\ rows' = Tail(rows)
                            /\ resend_pc' = resend_pc
                            /\ resent' = IF row.id > resent THEN row.id ELSE resent
                       ELSE /\ rows' = after_failure(Tail(rows))
                            /\ resend_pc' = IF rows' = <<>> THEN "ready" ELSE "pass"
                            /\ UNCHANGED <<queue, resent>>
    /\ UNCHANGED <<config, server, last_id_file, main, poller,
                   fetched, available, handed, returned, restarts>>

\* The rows are exhausted: conn.close(), and the task sleeps RETRY_INTERVAL.
resend_end ==
    /\ UNCHANGED <<polled, world>>
    /\ main_pc = "daemon"
    /\ resend_pc = "pass"
    /\ rows = <<>>
    /\ resend_pc' = "ready"
    /\ ev' = Step("sleep")
    /\ UNCHANGED <<config, server, disk, main, poller, rows, aux>>

\* ------------------------------------------------------- the environment

\* The channels this run reads.
Watched ==
    IF mode = "history"
    THEN IF usage_missing THEN {} ELSE {c \in Channels : <<c>> = resolve_channels(<<argv[3]>>)}
    ELSE {c \in Channels : \E i \in 1..Len(resolve_channels(CHANNELS_RAW)) :
                              resolve_channels(CHANNELS_RAW)[i] = c}

\* The messages posted so far, over all channels.
Posted == Len(chats[-1]) + Len(chats[-2])

\* Somebody posts a message to channel c, one of the channels this run reads.
new_message(c) ==
    /\ UNCHANGED <<polled, world>>
    /\ c \in Watched
    /\ Posted < MaxMsgs
    /\ chats' = [chats EXCEPT ![c] = Append(@, KindOf(c))]
    /\ ev' = Step("posted")
    /\ UNCHANGED <<config, disk, main, poller, resender, aux>>

\* The daemon is killed and started again: what is in memory is lost, the
\* database and the last-id file stay.
restart ==
    /\ UNCHANGED world
    /\ main_pc = "daemon"
    /\ restarts < MaxRestarts
    /\ restarts' = restarts + 1
    /\ main_pc' = "start"
    /\ app' = "new"
    /\ CHANNEL_IDS' = <<>>
    /\ last_ids' = EmptyDict
    /\ poll_pc' = "off"
    /\ poll_i' = 1
    /\ messages' = <<>>
    /\ resend_pc' = "off"
    /\ rows' = <<>>
    /\ handed' = {}
    /\ returned' = {}
    /\ polled' = {}
    /\ ev' = Step("restart")
    /\ UNCHANGED <<config, server, disk, fetched, available, resent>>

\* ------------------------------------------------------ the specification

Script == "userbot.py"

Url == {"http://n8n/webhook"}

Fresh == [rows |-> {}, seq |-> 0]

\* A database an earlier run left with a row that was damaged on disk.
Spoiled == [rows |-> {[id |-> 1, payload |-> Damaged]}, seq |-> 1]

\* The command lines, environments and databases the model starts from:
\* <<sys.argv, CHANNELS, N8N_WEBHOOK_URL, pending.db>>.
Starts ==
    {<<<<Script>>, ch, Url, Fresh>> :
        ch \in {<<>>, <<"-abc", "@ghost">>, <<"@ghost", "-2", "@news">>}}
    \cup
    {<<<<Script>>, <<"@news">>, u, db>> : u \in {{}, Url}, db \in {Fresh, Spoiled}}
    \cup
    {<<a, <<>>, Url, Fresh>> :
        a \in {<<Script, "auth">>, <<Script, "history">>, <<Script, "history", "@news">>,
               <<Script, "history", "@news", "abc">>,
               <<Script, "history", "@ghost", "1">>,
               <<Script, "history", "-abc", "1">>}
              \cup {<<Script, "history", "@news", c>> : c \in {"0", "1", "2", "3"}}}

Init ==
    /\ \E s \in Starts :
          /\ argv = s[1]
          /\ CHANNELS_RAW = s[2]
          /\ WEBHOOK_URL = s[3]
          /\ queue = s[4]
    /\ chats = [c \in Channels |-> <<>>]
    /\ last_id_file = EmptyDict
    /\ app = "new"
    /\ main_pc = "start"
    /\ CHANNEL_IDS = <<>>
    /\ last_ids = EmptyDict
    /\ poll_pc = "off"
    /\ poll_i = 1
    /\ messages = <<>>
    /\ resend_pc = "off"
    /\ rows = <<>>
    /\ fetched = <<>>
    /\ available = 0
    /\ handed = {}
    /\ returned = {}
    /\ resent = 0
    /\ restarts = 0
    /\ polled = {}
    /\ endpoint_up = FALSE
    /\ crashes = 0
    /\ ev = Step("init")

Next ==
    \/ main_async
    \/ read_history_fetch
    \/ read_history_step
    \/ read_history_complete
    \/ poll_load
    \/ poll_fetch
    \/ poll_process
    \/ poll_next
    \/ resend_begin
    \/ resend_row
    \/ resend_end
    \/ \E c \in Channels : new_message(c)
    \/ restart

Spec == Init /\ [][Next]_vars

\* ------------------------------------------- a channel busier than a page

\* One channel, a healthy endpoint, an empty queue: the daemon of
\* CHANNELS=@news whose endpoint answers 200 to every POST.
InitPage ==
    /\ argv = <<Script>>
    /\ CHANNELS_RAW = <<"@news">>
    /\ WEBHOOK_URL = Url
    /\ queue = Fresh
    /\ chats = [c \in Channels |-> <<>>]
    /\ last_id_file = EmptyDict
    /\ app = "new"
    /\ main_pc = "start"
    /\ CHANNEL_IDS = <<>>
    /\ last_ids = EmptyDict
    /\ poll_pc = "off"
    /\ poll_i = 1
    /\ messages = <<>>
    /\ resend_pc = "off"
    /\ rows = <<>>
    /\ fetched = <<>>
    /\ available = 0
    /\ handed = {}
    /\ returned = {}
    /\ resent = 0
    /\ restarts = 0
    /\ polled = {}
    /\ endpoint_up = TRUE
    /\ crashes = 0
    /\ ev = Step("init")

\* Somebody posts a message to channel c while poll_channels sleeps between
\* two cycles (await asyncio.sleep(POLL_INTERVAL)), the daemon running.
new_message_between_polls(c) ==
    /\ UNCHANGED <<polled, world>>
    /\ c \in Watched
    /\ main_pc = "daemon"
    /\ poll_pc = "fetch"
    /\ polled = {}
    /\ Len(chats[c]) < POLL_LIMIT + MaxBeyond
    /\ chats' = [chats EXCEPT ![c] = Append(@, KindOf(c))]
    /\ ev' = Step("posted")
    /\ UNCHANGED <<config, disk, main, poller, resender, aux>>

\* The steps of main_async and poll_channels and the posts between two
\* cycles.  With the endpoint answering 200 nothing is ever queued, so the
\* passes of the resender find no row and are left out.
NextPage ==
    \/ main_async
    \/ poll_load
    \/ poll_fetch
    \/ poll_process
    \/ poll_next
    \/ \E c \in Channels : new_message_between_polls(c)

SpecPage == InitPage /\ [][NextPage]_vars

\* ------------------------------------------------ an endpoint that recovers

\* The endpoint recovers: from now on it answers 200 to every POST.
endpoint_recovers ==
    /\ ~endpoint_up
    /\ endpoint_up' = TRUE
    /\ ev' = Step("recovered")
    /\ UNCHANGED <<config, server, disk, main, poller, resender, aux, polled, crashes>>

\* Mutant of after_exception: the exception ends background_resender.
exception_ends_loop(pc) == "off"

\* Where background_resender is after resend_queue raised: the except of its
\* loop logs the exception and the loop goes on to the sleep.
after_exception(pc) == "ready"

\* resend_queue raises an exception it does not catch (sqlite3 fails to read
\* or to write the database): the pass is over, the table is as it was.
resend_unexpected ==
    /\ main_pc = "daemon"
    /\ resend_pc = "pass"
    /\ crashes < MaxCrashes
    /\ crashes' = crashes + 1
    /\ rows' = <<>>
    /\ resend_pc' = after_exception(resend_pc)
    /\ ev' = Step("exception")
    /\ UNCHANGED <<config, server, disk, main, poller, aux, polled, endpoint_up>>

\* The daemon of CHANNELS=@news with an endpoint that is down at first, on a
\* fresh database or on one with a damaged row.
InitDrain ==
    /\ argv = <<Script>>
    /\ CHANNELS_RAW = <<"@news">>
    /\ WEBHOOK_URL = Url
    /\ queue \in {Fresh, Spoiled}
    /\ chats = [c \in Channels |-> <<>>]
    /\ last_id_file = EmptyDict
    /\ app = "new"
    /\ main_pc = "start"
    /\ CHANNEL_IDS = <<>>
    /\ last_ids = EmptyDict
    /\ poll_pc = "off"
    /\ poll_i = 1
    /\ messages = <<>>
    /\ resend_pc = "off"
    /\ rows = <<>>
    /\ fetched = <<>>
    /\ available = 0
    /\ handed = {}
    /\ returned = {}
    /\ resent = 0
    /\ restarts = 0
    /\ polled = {}
    /\ endpoint_up = FALSE
    /\ crashes = 0
    /\ ev = Step("init")

NextDrain ==
    \/ main_async
    \/ poll_load
    \/ poll_fetch
    \/ poll_process
    \/ poll_next
    \/ resend_begin
    \/ resend_row
    \/ resend_end
    \/ resend_unexpected
    \/ \E c \in Channels : new_message(c)
    \/ endpoint_recovers

\* The event loop runs every task that is ready: main_async and each step of
\* poll_channels and of a resend pass happen once they can (weak fairness);
\* the sleep of background_resender ends and the task is run at one of the
\* awaits of poll_channels, which come again and again (strong fairness).
FairDrain ==
    /\ WF_vars(main_async)
    /\ WF_vars(poll_load)
    /\ WF_vars(poll_fetch)
    /\ WF_vars(poll_process)
    /\ WF_vars(poll_next)
    /\ SF_vars(resend_begin)
    /\ WF_vars(resend_row)
    /\ WF_vars(resend_end)

SpecDrain == InitDrain /\ [][NextDrain]_vars /\ FairDrain

\* ================================================================ claims

DaemonMode == mode \notin {"auth", "history"}

\* The message a "process" step handed to process_message.
HandedMessage == Message(ev.chan, ev.mid, KindOf(ev.chan))

\* The row a "resend" step looked at.
ResendRow == CHOOSE r \in ev.before : r.id = ev.rowid

Sent == ev.op = "process" /\ ~ev.raised

Accepted200 == ~ev.resp.raised /\ ev.resp.status = 200

\* C1: with a configured endpoint send_or_queue makes exactly one POST; on
\* status 200 it returns True and leaves the queue table as it was; on any
\* other status and on an exception of the POST it returns False and the
\* table has exactly one more row, which holds the dumped payload.
C1_SendOrQueue ==
    (Sent /\ WEBHOOK_URL # {}) =>
        /\ ev.posts = 1
        /\ Accepted200 => (ev.ret /\ queue.rows = ev.before)
        /\ ~Accepted200 =>
              /\ ~ev.ret
              /\ \E r \in queue.rows :
                    /\ r \notin ev.before
                    /\ \A x \in ev.before : x.id # r.id
                    /\ queue.rows = ev.before \cup {r}
                    /\ r.payload = json_dumps(payload_of(HandedMessage))

\* A send whose POST raised: the payload went to the queue.
C1_Witness ==
    /\ Sent
    /\ WEBHOOK_URL # {}
    /\ ev.resp.raised
    /\ ~ev.ret
    /\ Cardinality(queue.rows) = Cardinality(ev.before) + 1

\* C2: a resend pass looks at the rows in ascending id: the row it attempts is
\* always the oldest row in the table; when the POST of a row fails (another
\* status, or an exception) the pass is over, no later row is attempted, and
\* the table is as it was before the attempt (the failed row and the later
\* ones are all still there).
C2_ResendOrder ==
    ev.op = "resend" =>
        /\ \A r \in ev.before : ev.rowid <= r.id
        /\ (~ev.malformed /\ ~ev.ret) =>
              /\ resend_pc = "ready"
              /\ rows = <<>>
              /\ queue.rows = ev.before

\* Three well-formed rows were queued, the first has been accepted, the POST
\* of the second has just failed: the second and the third are left.
C2_Witness ==
    /\ ev.op = "resend"
    /\ ~ev.malformed
    /\ ~ev.ret
    /\ WEBHOOK_URL # {}
    /\ resent > 0
    /\ resent < ev.rowid
    /\ Cardinality(queue.rows) = 2
    /\ \A r \in queue.rows : json_valid(r.payload) /\ r.id >= ev.rowid
    /\ resend_pc = "ready"

\* C3: the row send_or_queue stores for a payload it could not deliver is
\* accepted by json.loads and loads to the very payload; a row whose resend
\* POST returned 200 is gone from the table, and no row of the table or of
\* the running pass is one that a resend already got accepted.
C3_QueueRoundTrip ==
    /\ (Sent /\ ~ev.ret) =>
          \E r \in queue.rows \ ev.before :
             /\ json_valid(r.payload)
             /\ json_loads(r.payload) = payload_of(HandedMessage)
    /\ (ev.op = "resend" /\ ev.ret) => \A r \in queue.rows : r.id # ev.rowid
    /\ \A r \in queue.rows : r.id > resent
    /\ \A i \in 1..Len(rows) : rows[i].id > resent

\* A queued payload has been resent and accepted while newer rows wait.
C3_Witness ==
    /\ ev.op = "resend"
    /\ ev.ret
    /\ resent = ev.rowid
    /\ queue.rows # {}

\* C4: a row whose text json.loads rejects is deleted without a POST, and the
\* pass goes on with the rows that are left.
C4_Malformed ==
    (ev.op = "resend" /\ ~json_valid(ResendRow.payload)) =>
        /\ ev.posts = 0
        /\ queue.rows = ev.before \ {ResendRow}
        /\ resend_pc = "pass"
        /\ rows = select_ordered(queue.rows)

\* A damaged row has been dropped and the pass has a next row to go on with.
C4_Witness ==
    /\ ev.op = "resend"
    /\ ev.malformed
    /\ rows # <<>>
    /\ resend_pc = "pass"

C6_HistoryCount ==
    main_pc = "history_done" => Cardinality(handed) = Min(count, available)

\* C7 as stated: no step of poll_channels changes the queue table.
C7_PollerLeavesQueue ==
    ev.op \in {"load", "fetch", "fetch_failed", "process", "skip", "next", "save"}
        => queue.rows = ev.before

\* C7 as amended: the last-id file and the last_ids dict are changed only by
\* poll_channels; the queue table is shared: poll_channels adds rows to it
\* (process_message -> send_or_queue -> save_to_queue) and never removes or
\* changes one, and the resender removes rows and never adds one.
C7_Ownership ==
    [][/\ ev'.op \in {"select", "resend", "sleep"} =>
             /\ last_ids' = last_ids
             /\ last_id_file' = last_id_file
             /\ queue'.rows \subseteq queue.rows
             /\ queue'.seq = queue.seq
       /\ ev'.op \in {"load", "fetch", "fetch_failed", "process", "skip", "next", "save"} =>
             /\ queue.rows \subseteq queue'.rows
             /\ rows' = rows]_vars

\* poll_channels has just added a row to a table the resender has rows in.
C7_Witness ==
    /\ ev.op = "process"
    /\ DaemonMode
    /\ ev.before # {}
    /\ queue.rows # ev.before
    /\ resend_pc = "ready"

\* C8: when no channel of CHANNELS resolves, the daemon starts neither task
\* and stops the client; in history mode a missing argument, a count that is
\* no integer or a channel that does not resolve end the run with no message
\* handed to process_message.
C8_ConfigErrors ==
    /\ (DaemonMode /\ resolve_channels(CHANNELS_RAW) = <<>>) =>
          /\ resend_pc = "off"
          /\ poll_pc = "off"
          /\ handed = {}
          /\ main_pc # "start" => (main_pc = "no_channels" /\ app = "stopped")
    /\ (mode = "history" /\ (Len(argv) < 4 \/ ~IsInt(argv[4])
                              \/ resolve_channels(<<argv[3]>>) = <<>>)) =>
          /\ handed = {}
          /\ ev.op # "process"
          /\ main_pc \in {"start", "usage_error", "count_error", "unresolved"}

\* CHANNELS names channels, none resolves: the daemon has given up.
C8_Witness ==
    /\ main_pc = "no_channels"
    /\ CHANNELS_RAW # <<>>
    /\ app = "stopped"

\* C9: in history mode every fetched message is handed to process_message,
\* whatever process_message raised for the others: until the run is complete
\* a fetched message is handed or still waits in the loop, the loop never
\* ends early, and at completion all of them are handed.
C9_HistorySkipsOne ==
    /\ main_pc # "history_failed"
    /\ main_pc \in {"history_loop", "history_done"} =>
          \A i \in 1..Len(fetched) :
             \/ <<channel_id, fetched[i]>> \in handed
             \/ \E j \in 1..Len(messages) : messages[j].id = fetched[i]
    /\ main_pc = "history_done" => messages = <<>>

\* The run is complete, process_message raised for the first message and
\* returned for a later one.
C9_Witness ==
    /\ main_pc = "history_done"
    /\ \E m \in handed \ returned : \E n \in returned : n[2] > m[2]

\* C10 as stated: the endpoint never accepts a message while an older message
\* of the same channel waits in the queue table.
C10_ChannelOrder ==
    (ev.op \in {"process", "resend"} /\ DaemonMode /\ ev.ret) =>
        \A r \in queue.rows :
           (json_valid(r.payload) /\ json_loads(r.payload).chat_id = ev.chan)
               => json_loads(r.payload).message_id >= ev.mid

\* C10 as amended: a resend gets a row accepted only when no row inserted
\* before it is left in the table.
C10_ResendFifo ==
    (ev.op = "resend" /\ ev.ret) => \A r \in queue.rows : r.id > ev.rowid

\* A resend got a row accepted and newer rows are waiting behind it.
C10_Witness ==
    /\ ev.op = "resend"
    /\ ev.ret
    /\ Cardinality(queue.rows) >= 2

\* C11: head-of-line stall.  The row a resend pass attempts is the oldest
\* well-formed row of the table, so no later row is attempted while that one
\* is there; when the attempt is rejected (another status, an exception) the
\* pass is over with the rejected row and every other well-formed row still
\* in the table; and every pass starts from the oldest row of the table.
C11_HeadOfLine ==
    /\ (ev.op = "resend" /\ ~ev.malformed) =>
          /\ \A r \in ev.before : json_valid(r.payload) => ev.rowid <= r.id
          /\ ~ev.ret =>
                /\ ResendRow \in queue.rows
                /\ \A r \in ev.before : json_valid(r.payload) => r \in queue.rows
                /\ rows = <<>>
                /\ resend_pc = "ready"
    /\ (ev.op = "select" /\ queue.rows # {}) =>
          /\ rows # <<>>
          /\ \A r \in queue.rows : rows[1].id <= r.id

\* The oldest row has been rejected while a later row waits behind it, and
\* nothing has been accepted from the queue so far.
C11_Witness ==
    /\ ev.op = "resend"
    /\ ~ev.malformed
    /\ ~ev.ret
    /\ WEBHOOK_URL # {}
    /\ resent = 0
    /\ \E r \in queue.rows : json_valid(r.payload) /\ r.id > ev.rowid
    /\ rows = <<>>

\* The last-seen id a dict of last ids holds for channel c: last_ids.get(str(c), 0).
LastId(d, c) == dict_get(d, NumStr[c], 0)

\* The ids of the messages of channel c in a set of <<chat id, message id>>.
IdsOf(pairs, c) == {p[2] : p \in {q \in pairs : q[1] = c}}

SetMax(S) == CHOOSE x \in S : \A y \in S : x >= y

\* C12 as stated: at the end of a poll cycle the last-seen id of every channel
\* is the highest id of the channel handed to process_message so far (0 when
\* none was).
C12_HighestHanded ==
    (ev.op = "save" /\ restarts = 0) =>
        \A c \in Channels : LastId(last_ids, c) = SetMax(IdsOf(handed, c) \cup {0})

\* C12 as amended: within a run no step lowers the last-seen id of a channel,
\* and the id is never below the one the last-id file holds, so a save never
\* lowers the file's; the last-seen id of a channel is the highest id of the
\* channel for which process_message has returned in this run, or the id of
\* the file when it has returned for none; it is moved to a message when
\* process_message returned for it, delivered or queued, and stays where it
\* was when process_message raised.
C12_LastIdAdvance ==
    /\ ev.op # "restart" =>
          \A c \in Channels : LastId(last_ids, c) >= LastId(ev.last_before, c)
    /\ poll_pc \in {"fetch", "process"} =>
          \A c \in Channels :
             /\ LastId(last_ids, c) >= LastId(load_last_ids(last_id_file), c)
             /\ LastId(last_ids, c) =
                   IF IdsOf(returned, c) = {}
                   THEN LastId(load_last_ids(last_id_file), c)
                   ELSE SetMax(IdsOf(returned, c))
    /\ (Sent /\ DaemonMode) => LastId(last_ids, ev.chan) = ev.mid
    /\ (ev.op = "process" /\ ev.raised /\ DaemonMode) => last_ids = ev.last_before
    /\ ev.op = "save" => last_id_file = save_last_ids(last_ids)

\* A cycle has ended in which one message was queued, which moved the
\* last-seen id to it, and process_message raised for the next, which did not.
C12_Witness ==
    /\ ev.op = "save"
    /\ queue.rows # {}
    /\ \E c \in Channels :
          /\ LastId(last_ids, c) > 0
          /\ LastId(last_ids, c) \in IdsOf(returned, c)
          /\ \E m \in IdsOf(handed \ returned, c) : m > LastId(last_ids, c)

\* C14: a well-formed row that a step takes out of the queue table is the row
\* a resend has just POSTed, and the POST of its payload returned status 200;
\* no other step removes one.  A row keeps its id and its text while it is in
\* the table, and a row that is inserted gets an id above every row's, so the
\* order of the rows that wait never changes.
C14_LeavesOn200 ==
    /\ \A r \in ev.before :
          (json_valid(r.payload) /\ r \notin queue.rows) =>
              /\ ev.op = "resend"
              /\ ev.rowid = r.id
              /\ ev.posts = 1
              /\ Accepted200
              /\ ev.chan = json_loads(r.payload).chat_id
              /\ ev.mid = json_loads(r.payload).message_id
              /\ \A x \in queue.rows : x.id # r.id
    /\ \A r \in queue.rows \ ev.before :
          /\ ev.op = "process"
          /\ \A x \in ev.before : r.id > x.id

\* The endpoint answered 500 to the resend of a row, after it had accepted an
\* older one: the row is still in the table.
C14_Witness ==
    /\ ev.op = "resend"
    /\ ~ev.malformed
    /\ ev.posts = 1
    /\ ~ev.resp.raised
    /\ ev.resp.status = 500
    /\ resent > 0
    /\ ResendRow \in queue.rows

\* C17: an error in one channel of a poll cycle (the fetch raises, or
\* process_message raises) ends that channel only: the last-seen ids are all
\* as they were before the error and the loop over the channels is still at
\* that channel, the channels are polled one after the other in the order of
\* CHANNEL_IDS, and the cycle ends, with every resolved channel polled, by
\* writing the last ids to the last-id file.
C17_ErrorIsLocal ==
    /\ (ev.op = "fetch_failed" \/ (ev.op = "process" /\ ev.raised /\ DaemonMode)) =>
          /\ last_ids = ev.last_before
          /\ poll_pc = "process"
          /\ messages = <<>>
          /\ poll_i \in polled
          /\ polled = 1..poll_i
          /\ ev.op = "process" => CHANNEL_IDS[poll_i] = ev.chan
    /\ ev.op = "next" =>
          /\ polled = 1..(poll_i - 1)
          /\ poll_pc = "fetch"
    /\ ev.op = "save" =>
          /\ ev.polled = 1..Len(CHANNEL_IDS)
          /\ polled = {}
          /\ last_id_file = save_last_ids(last_ids)
          /\ \A c \in Channels :
                IdsOf(returned, c) # {} => LastId(load_last_ids(last_id_file), c) > 0

\* A cycle over two channels has ended: process_message raised for a message
\* of the first channel, whose last id has not moved, it returned for a
\* message of the second, and the file holds the second channel's new id.
C17_Witness ==
    /\ ev.op = "save"
    /\ Len(CHANNEL_IDS) = 2
    /\ IdsOf(handed \ returned, CHANNEL_IDS[1]) # {}
    /\ LastId(last_ids, CHANNEL_IDS[1]) = 0
    /\ IdsOf(returned, CHANNEL_IDS[2]) # {}
    /\ LastId(load_last_ids(last_id_file), CHANNEL_IDS[2]) > 0

\* C18 as stated: with no webhook URL no step takes a row out of the queue
\* table (the store only grows).
C18_StoreOnlyGrows == WEBHOOK_URL = {} => ev.before \subseteq queue.rows

\* C18 as amended: with no webhook URL no POST is ever made; send_or_queue
\* returns False and the table has exactly one more row, which holds the
\* dumped payload; the attempt of a resend pass at a well-formed row fails,
\* ends the pass and leaves the table as it was; and no step takes a
\* well-formed row out of the table (a damaged row is still deleted).
C18_NoUrl ==
    WEBHOOK_URL = {} =>
        /\ ev.posts = 0
        /\ Sent =>
              /\ ~ev.ret
              /\ Cardinality(queue.rows) = Cardinality(ev.before) + 1
              /\ \E r \in queue.rows \ ev.before :
                    /\ queue.rows = ev.before \cup {r}
                    /\ r.payload = json_dumps(payload_of(HandedMessage))
        /\ (ev.op = "resend" /\ ~ev.malformed) =>
              /\ ~ev.ret
              /\ queue.rows = ev.before
              /\ resend_pc = "ready"
        /\ \A r \in ev.before : json_valid(r.payload) => r \in queue.rows
        /\ resent = 0

\* With no URL two payloads have been queued and a resend pass has just
\* failed at the older one.
C18_Witness ==
    /\ WEBHOOK_URL = {}
    /\ ev.op = "resend"
    /\ ~ev.malformed
    /\ Cardinality({r \in queue.rows : json_valid(r.payload)}) >= 2

\* C19: the client gives the messages newest first; read_history and
\* poll_channels go through them in the reverse order: the messages still to
\* be handled are in increasing id, history mode's are the reverse of what was
\* fetched, and a message handed to process_message is older than every
\* message still to be handled and no older than any message of its channel
\* handed on before it.
C19_OldestFirst ==
    /\ \A i, j \in 1..Len(messages) : i < j => messages[i].id < messages[j].id
    /\ \A i, j \in 1..Len(fetched) : i < j => fetched[i] > fetched[j]
    /\ (ev.op = "fetch" /\ mode = "history") => Ids(messages) = Reverse(fetched)
    /\ ev.op = "process" =>
          /\ \A i \in 1..Len(messages) : messages[i].id > ev.mid
          /\ \A m \in IdsOf(handed, ev.chan) : m <= ev.mid

\* History mode fetched two messages, the newer first, and has just handed on
\* the newer one, after the older one.
C19_Witness ==
    /\ ev.op = "process"
    /\ mode = "history"
    /\ Len(fetched) = 2
    /\ fetched[1] > fetched[2]
    /\ ev.mid = fetched[1]
    /\ <<ev.chan, fetched[2]>> \in handed

\* C13: when poll_channels moves a channel's last-seen id to a message, the
\* endpoint has accepted the message's payload with status 200 or the payload
\* is a row of the queue table; and the last-seen id of a channel is below
\* every message of the channel for which process_message raised and has not
\* returned since.
C13_NoLossAtHandOff ==
    /\ (Sent /\ DaemonMode) =>
          /\ LastId(last_ids, ev.chan) = ev.mid
          /\ \/ ev.posts = 1 /\ Accepted200
             \/ \E r \in queue.rows : r.payload = json_dumps(payload_of(HandedMessage))
    /\ DaemonMode =>
          \A c \in Channels :
             \A m \in IdsOf(handed \ returned, c) : m > LastId(last_ids, c)

\* C16: no message of a watched channel is left behind the channel's
\* last-seen id without having been handed to send_or_queue.  (Only messages
\* above the last-seen id are handed on, and the id never decreases, so a
\* message at or below it that has not been handed on never will be.)
C16_NoneLeftBehind ==
    DaemonMode =>
        \A c \in Channels :
           \A m \in 1..LastId(last_ids, c) : <<c, m>> \in returned

\* C15: once the endpoint answers 200 to every POST, the queue table
\* eventually becomes empty, under a fair event loop; and an exception that
\* resend_queue does not catch leaves background_resender ready for its next
\* pass.
C15_EventualDrain ==
    /\ endpoint_up ~> (queue.rows = {})
    /\ [](ev.op = "exception" => resend_pc = "ready")

\* The endpoint has recovered and the table is empty, after a pass that
\* raised and a later pass that got a queued payload accepted.
C15_Witness ==
    /\ endpoint_up
    /\ queue.rows = {}
    /\ crashes > 0
    /\ resent > 0
    /\ ev.op = "resend"

====
